---- MODULE Spec2Model ----
(***************************************************************************)
(* Grid trading worker of bit-moon (src/product_app.py): grid construction, *)
(* the per-level buy/sell state machine, the price-driven cycle and the     *)
(* persisted grid / trade relations, for one ticker.                        *)
(*                                                                          *)
(* Money is counted in whole KRW.  Optional values (Python None, a missing  *)
(* dict key) are sequences of length 0 or 1: <<>> is None, <<v>> is v.      *)
(* Python floats are modelled by integers; the value sets are chosen so     *)
(* that every product and quotient the code computes is a whole number.     *)
(***************************************************************************)
EXTENDS Integers, Sequences, FiniteSets, TLC

\* ------------------------------------------------------------------ bounds

\* Number of grid levels of the modelled configuration (MAX_GRID_COUNT).
MaxGridCount == 2
\* Price ticks are k * PriceUnit for k in 0..MaxPriceK.
MaxPriceK == 7
\* Largest executed volume an order status reports.
MaxVolume == 1
\* The exchange fills at most this many orders in a run.
MaxTrades == 2

\* ------------------------------------------------------- program constants

\* TradingConfig.FEE_RATE = 0.0005 = FEE_RATE_NUM / FEE_RATE_DEN
FEE_RATE_NUM == 5
FEE_RATE_DEN == 10000

\* Smallest notional whose default fee (notional * FEE_RATE) is a whole KRW.
PriceUnit == FEE_RATE_DEN \div FEE_RATE_NUM

Prices == {k * PriceUnit : k \in 0..MaxPriceK}

\* Optional values.
None == <<>>
Some(v) == <<v>>
IsNone(o) == Len(o) = 0
Val(o) == o[1]
\* dict.get(key, default)
GetOr(o, default) == IF IsNone(o) THEN default ELSE Val(o)

\* One COIN_LIST entry, as setup_application reads it: BASE_PRICE (None when
\* unset), PRICE_CHANGE and GRID_INTERVAL_PERCENT (0 when the key is missing),
\* ORDER_AMOUNT.
Coin(base, fixed, percent, amount) ==
    [BASE_PRICE |-> base, PRICE_CHANGE |-> fixed,
     GRID_INTERVAL_PERCENT |-> percent, ORDER_AMOUNT |-> amount]

\* Every configuration: base price set or unset, the fixed interval set or
\* not, the percentage missing, positive or negative.
AllCoins ==
    {Coin(b, f, p, 5 * PriceUnit) :
        b \in {None, Some(5 * PriceUnit)}, f \in {0, 2 * PriceUnit}, p \in {-20, 0, 20}}

\* The configuration the trading loop is explored with: a configured base
\* price and a fixed interval of 2 * PriceUnit.
RunCoins == {Coin(Some(5 * PriceUnit), 2 * PriceUnit, 0, 5 * PriceUnit)}

VARIABLES
    BASE_PRICE,             \* Optional: configured base price, then the resolved one
    PRICE_CHANGE,           \* fixed interval
    GRID_INTERVAL_PERCENT,  \* percentage interval
    MAX_GRID_COUNT,
    ORDER_AMOUNT,
    current_price,          \* module global, 0 until the first price read
    previous_price,         \* Optional
    grid_orders,            \* Seq of grid dicts
    db_grid,                \* rows of the grid table, in id order
    trades,                 \* rows of the trades table, in id order
    balance_rows,           \* balance_history: "none" while empty, "some" once a row is in
    store_ok,               \* whether the database accepts writes
    is_active,              \* coin_config.is_active
    budget_krw,             \* coin_config.budget_krw
    pc,                     \* worker position
    idx,                    \* position of the for loop of check_price_and_trade
    traded,                 \* local of check_price_and_trade
    ev,                     \* log: the last call and what it did
    cycle,                  \* log: what the current cycle did
    fills,                  \* orders the exchange has filled so far
    notify_ok,              \* whether the Discord webhook can be reached
    peer_mem,               \* module globals of the process started for PEER
    peer_file,              \* the database file of PEER, when it is another file
    databases               \* db_handler: the grid table behind db_pool, per APP_MODE

config == <<BASE_PRICE, PRICE_CHANGE, GRID_INTERVAL_PERCENT, MAX_GRID_COUNT, ORDER_AMOUNT>>
control == <<is_active, budget_krw>>
store == <<db_grid, trades, balance_rows, store_ok>>
outside == <<notify_ok, peer_mem, peer_file, databases>>
vars == <<config, current_price, previous_price, grid_orders, store, control,
          pc, idx, traded, ev, cycle, fills, outside>>

\* ----------------------------------------------------------------- helpers

\* The ticker of this worker (global TICKER, set once by setup_application).
TICKER == "KRW-BTC"

\* Replies of pyupbit.get_current_price: a price, or None (an exception inside
\* get_current_price is caught and returns None as well).
PriceReplies == {None} \cup {Some(p) : p \in Prices}

\* ------------------------------------------------------------- persistence

\* Mutant: the is_bought column is not taken from the dict.
GridRowNoFlag(g) ==
    [ticker |-> TICKER, grid_level |-> g.level,
     buy_price_target |-> g.buy_price_target,
     sell_price_target |-> g.sell_price_target,
     order_krw_amount |-> g.order_krw_amount,
     is_bought |-> FALSE,
     actual_bought_volume |-> g.actual_bought_volume,
     actual_buy_fill_price |-> g.actual_buy_fill_price]

\* The columns save_grid writes for one grid dict.
GridRow(g) ==
    [ticker |-> TICKER, grid_level |-> g.level,
     buy_price_target |-> g.buy_price_target,
     sell_price_target |-> g.sell_price_target,
     order_krw_amount |-> g.order_krw_amount,
     is_bought |-> g.is_bought,
     actual_bought_volume |-> g.actual_bought_volume,
     actual_buy_fill_price |-> g.actual_buy_fill_price]

\* Ids of the rows save_grid's SELECT matches.
MatchingRows(db, level) ==
    {i \in 1..Len(db) : db[i].grid_level = level /\ db[i].ticker = TICKER}

\* Mutant: every save is an INSERT.
save_grid_append(db, g, ok) == IF ok THEN Append(db, GridRow(g)) ELSE db

\* Mutant: the write is never committed.
save_grid_uncommitted(db, g, ok) == db

\* save_grid: update the selected row when the SELECT finds one, insert
\* otherwise; an exception (ok = FALSE) is logged and the table is unchanged.
save_grid(db, g, ok) ==
    IF ~ok THEN db
    ELSE IF MatchingRows(db, g.level) # {}
         THEN LET id == CHOOSE i \in MatchingRows(db, g.level) :
                            \A j \in MatchingRows(db, g.level) : j <= i
              IN [db EXCEPT ![id] = GridRow(g)]
         ELSE Append(db, GridRow(g))

\* save_trade: one INSERT; trade_data.get('profit', 0) and
\* trade_data.get('profit_percentage', 0) default the sell-only columns.
TradeRow(t) == [ticker |-> TICKER] @@ t

\* Mutant: the row replaces the table's contents instead of being added.
save_trade_replace(log, t, ok) == IF ok THEN <<TradeRow(t)>> ELSE log

save_trade(log, t, ok) == IF ok THEN Append(log, TradeRow(t)) ELSE log

\* Whether one write goes through: always while the database accepts writes,
\* and either way while it is failing (a locked file lets some through).
Writes == IF store_ok THEN {TRUE} ELSE BOOLEAN

\* save_balance: one INSERT into balance_history.
save_balance(n, ok) == IF ok THEN "some" ELSE n

\* get_balance: reads the balances and saves a snapshot; a failing read
\* (read = FALSE) is caught and no row is written.
get_balance(n, read, ok) == IF read THEN save_balance(n, ok) ELSE n

\* ------------------------------------------------------------------- grid

\* Mutant: a configured fixed interval wins over the percentage.
price_change_amount_fixed_first(base, percent, fixed) ==
    IF fixed # 0 THEN fixed ELSE (base * percent) \div 100

\* The interval create_grid_orders resolves (price_change_amount).
price_change_amount(base, percent, fixed) ==
    IF percent # 0 /\ percent > 0 THEN (base * percent) \div 100 ELSE fixed

\* Mutant: the loop index counted from 1 instead of 0.
NewGridOffByOne(base, d, i, amount) ==
    LET buy_target_price == base - ((i + 1) * d)
    IN [level |-> i + 1,
        buy_price_target |-> buy_target_price,
        sell_price_target |-> buy_target_price + d,
        buy_price_min |-> buy_target_price - d,
        order_krw_amount |-> amount,
        is_bought |-> FALSE,
        actual_bought_volume |-> 0,
        actual_buy_fill_price |-> 0]

\* One grid dict of create_grid_orders, for loop index i = level - 1.
NewGrid(base, d, i, amount) ==
    LET buy_target_price == base - (i * d)
    IN [level |-> i + 1,
        buy_price_target |-> buy_target_price,
        sell_price_target |-> buy_target_price + d,
        buy_price_min |-> buy_target_price - d,
        order_krw_amount |-> amount,
        is_bought |-> FALSE,
        actual_bought_volume |-> 0,
        actual_buy_fill_price |-> 0]

\* Mutant: grid_orders[-1], the last grid, whatever the level asked for.
GridIndexLast(grid_level) == Len(grid_orders)

\* grid_orders[grid_level - 1] of buy_coin / sell_coin (1-based here).
GridIndex(grid_level) == grid_level

\* Mutant: construction saves only the levels that have no row yet.
SaveAllNewOnly(db, grids, i, ok) ==
    LET Missing(g) == MatchingRows(db, g.level) = {}
        missing == SelectSeq(grids, Missing)
    IN IF ok THEN db \o [k \in 1..Len(missing) |-> GridRow(missing[k])] ELSE db

\* Mutant: save_grid is called once, after the loop, with the last grid.
SaveAllLastOnly(db, grids, i, ok) ==
    IF grids = <<>> THEN db ELSE save_grid(db, grids[Len(grids)], ok)

\* for i in range(MAX_GRID_COUNT): ... save_grid(grid), from position i on.
RECURSIVE SaveAll(_, _, _, _)
SaveAll(db, grids, i, ok) ==
    IF i > Len(grids) THEN db
    ELSE SaveAll(save_grid(db, grids[i], ok), grids, i + 1, ok)

\* ---------------------------------------------------------------- gateway

\* upbit.get_balance(...): a quantity, or None when the request fails.
KrwReads == {None, Some(0), Some(ORDER_AMOUNT)}
CoinReads == {None, Some(0), Some(MaxVolume)}

\* upbit.buy_market_order / sell_market_order: a dict with 'uuid', something
\* without it (None, an error dict), or an exception.
OrderResponses == {"uuid", "rejected", "raise"}

\* upbit.get_order: the order's dict (each key may be missing), or an exception.
\* The replies drawn: an exception; every key missing; an executed volume
\* with the price and fee keys missing; the largest one with both present.
Detail(raise, executed_volume, avg_price, paid_fee) ==
    [raise |-> raise, executed_volume |-> executed_volume,
     avg_price |-> avg_price, paid_fee |-> paid_fee]

NoDetail == Detail(FALSE, None, None, None)

OrderDetails ==
    {Detail(TRUE, None, None, None), NoDetail}
        \cup {Detail(FALSE, Some(v), None, None) : v \in 0..MaxVolume}
        \cup {Detail(FALSE, Some(MaxVolume), Some(current_price + PriceUnit), Some(3))}

\* amount * FEE_RATE
FeeOf(amount) == (amount * FEE_RATE_NUM) \div FEE_RATE_DEN

\* (profit / order_krw_amount) * 100, kept as a fraction num / den.
Percentage(profit, amount) ==
    IF amount > 0 THEN [num |-> profit * 100, den |-> amount] ELSE [num |-> 0, den |-> 1]

\* ------------------------------------------------------------------ events

\* One call and what it did: the operation, its level, its return value,
\* whether an order reached the exchange, the grid and trade count before the
\* call, and the replies it received: the balance read (funds), the order
\* response (resp, "none" when no order call was made), the order detail, what
\* became of the Discord message (notified, "none" when none was sent); for
\* create_grid_orders its argument (base_in) and the price reply.
NoEvent ==
    [op |-> "none", level |-> 0, ret |-> "none", ordered |-> FALSE,
     pre |-> <<>>, ntrades |-> 0, detail |-> NoDetail,
     funds |-> None, resp |-> "none", base_in |-> None, reply |-> None,
     notified |-> "none"]

\* Mutant: the webhook's failure is not caught.
send_raises(ok) == IF ok THEN "sent" ELSE "raised"

\* DiscordLogger.send: requests.post inside try/except Exception, so a failed
\* post is printed and the call returns.
send(ok) == IF ok THEN "sent" ELSE "swallowed"

\* The success path ends with discord_logger.send and return True, inside the
\* try block: a send that raised would be caught below and turned into False.
Returned(ret, sent) == IF ret = "ok" /\ sent = "raised" THEN "false" ELSE ret

Event(op, level, ret, ordered, detail) ==
    [NoEvent EXCEPT !.op = op, !.level = level, !.ret = ret, !.ordered = ordered,
                    !.pre = grid_orders, !.ntrades = Len(trades), !.detail = detail]

\* --------------------------------------------------------------- buy_coin

\* Mutant: the executed volume is not checked.
BuyOutcomeAcceptsZeroFill(grid, krw, resp, detail) ==
    IF IsNone(krw) THEN [ret |-> "false", ordered |-> FALSE]
    ELSE IF Val(krw) < grid.order_krw_amount THEN [ret |-> "false", ordered |-> FALSE]
    ELSE IF resp = "raise" THEN [ret |-> "false", ordered |-> FALSE]
    ELSE IF resp = "rejected" THEN [ret |-> "false", ordered |-> FALSE]
    ELSE IF detail.raise THEN [ret |-> "false", ordered |-> TRUE]
    ELSE [ret |-> "ok", ordered |-> TRUE]

\* What buy_coin decides from the gateway's replies, for a grid not yet bought:
\* "ok" on a fill, "false" on every return False (with or without an order).
BuyOutcome(grid, krw, resp, detail) ==
    IF IsNone(krw) THEN [ret |-> "false", ordered |-> FALSE]
    ELSE IF Val(krw) < grid.order_krw_amount THEN [ret |-> "false", ordered |-> FALSE]
    ELSE IF resp = "raise" THEN [ret |-> "false", ordered |-> FALSE]
    ELSE IF resp = "rejected" THEN [ret |-> "false", ordered |-> FALSE]
    ELSE IF detail.raise THEN [ret |-> "false", ordered |-> TRUE]
    ELSE IF GetOr(detail.executed_volume, 0) <= 0 THEN [ret |-> "false", ordered |-> TRUE]
    ELSE [ret |-> "ok", ordered |-> TRUE]

\* Mutant: the fill price also becomes the level's buy target.
BoughtGridRetargets(grid, detail) ==
    [grid EXCEPT !.is_bought = TRUE,
                 !.actual_bought_volume = GetOr(detail.executed_volume, 0),
                 !.actual_buy_fill_price = GetOr(detail.avg_price, current_price),
                 !.buy_price_target = GetOr(detail.avg_price, current_price)]

\* grid.update(...) of buy_coin
BoughtGrid(grid, detail) ==
    [grid EXCEPT !.is_bought = TRUE,
                 !.actual_bought_volume = GetOr(detail.executed_volume, 0),
                 !.actual_buy_fill_price = GetOr(detail.avg_price, current_price)]

\* trade dict of buy_coin
BuyTrade(grid_level, grid, detail) ==
    [type |-> "buy", grid_level |-> grid_level,
     price |-> GetOr(detail.avg_price, current_price),
     amount |-> grid.order_krw_amount,
     volume |-> GetOr(detail.executed_volume, 0),
     fee |-> GetOr(detail.paid_fee, FeeOf(grid.order_krw_amount)),
     profit |-> 0, profit_percentage |-> [num |-> 0, den |-> 1]]

\* Mutant: the guard is missing.
AlreadyBoughtNever(grid) == FALSE

\* if grid['is_bought']: return False
AlreadyBought(grid) == grid.is_bought

buy_coin(grid_level) ==
    LET k == GridIndex(grid_level)
        grid == grid_orders[k]
    IN IF AlreadyBought(grid)
       THEN /\ ev' = Event("buy", grid_level, "false", FALSE, NoDetail)
            /\ UNCHANGED <<grid_orders, db_grid, trades, balance_rows, fills>>
       ELSE \E krw \in KrwReads, resp \in OrderResponses, detail \in OrderDetails,
               read \in BOOLEAN, grid_saved \in Writes, trade_saved \in Writes :
            LET out == BuyOutcome(grid, krw, resp, detail)
                new == BoughtGrid(grid, detail)
                called == ~IsNone(krw) /\ ~(Val(krw) < grid.order_krw_amount)
            IN \* replies of calls that are never made are not drawn
               /\ ~called => resp = "uuid"
               /\ ~out.ordered => detail = NoDetail
               /\ out.ret # "ok" => read /\ grid_saved = store_ok /\ trade_saved = store_ok
               /\ out.ret = "ok" => fills < MaxTrades
               /\ fills' = IF out.ret = "ok" THEN fills + 1 ELSE fills
               /\ ev' = [Event("buy", grid_level, Returned(out.ret, send(notify_ok)),
                               out.ordered, detail)
                            EXCEPT !.funds = krw,
                                   !.resp = IF called THEN resp ELSE "none",
                                   !.notified = IF out.ret = "ok" THEN send(notify_ok)
                                                ELSE "none"]
               /\ IF out.ret = "ok"
                  THEN /\ grid_orders' = [grid_orders EXCEPT ![k] = new]
                       /\ db_grid' = save_grid(db_grid, new, grid_saved)
                       /\ trades' = save_trade(trades, BuyTrade(grid_level, new, detail),
                                               trade_saved)
                       /\ balance_rows' = get_balance(balance_rows, read, store_ok)
                  ELSE UNCHANGED <<grid_orders, db_grid, trades, balance_rows>>

\* -------------------------------------------------------------- sell_coin

\* Mutant: the held volume is not compared with the volume to sell.
SellOutcomeNoBalanceCheck(grid, coin, resp, detail) ==
    IF IsNone(coin) THEN [ret |-> "raise", ordered |-> FALSE]
    ELSE IF resp = "raise" THEN [ret |-> "false", ordered |-> FALSE]
    ELSE IF resp = "rejected" THEN [ret |-> "false", ordered |-> FALSE]
    ELSE IF detail.raise THEN [ret |-> "false", ordered |-> TRUE]
    ELSE [ret |-> "ok", ordered |-> TRUE]

\* What sell_coin decides for a bought grid: "raise" when the balance read
\* before the try block fails (None < volume raises TypeError).
SellOutcome(grid, coin, resp, detail) ==
    IF IsNone(coin) THEN [ret |-> "raise", ordered |-> FALSE]
    ELSE IF Val(coin) < grid.actual_bought_volume THEN [ret |-> "false", ordered |-> FALSE]
    ELSE IF resp = "raise" THEN [ret |-> "false", ordered |-> FALSE]
    ELSE IF resp = "rejected" THEN [ret |-> "false", ordered |-> FALSE]
    ELSE IF detail.raise THEN [ret |-> "false", ordered |-> TRUE]
    ELSE [ret |-> "ok", ordered |-> TRUE]

\* Mutant: the fill is left on the level.
SoldGridKeepsFill(grid) == [grid EXCEPT !.is_bought = FALSE]

\* grid.update(...) of sell_coin
SoldGrid(grid) ==
    [grid EXCEPT !.is_bought = FALSE,
                 !.actual_bought_volume = 0,
                 !.actual_buy_fill_price = 0]

\* Mutant: the profit forgets the fee.
SellTradeNoFee(grid_level, grid, detail) ==
    LET volume_to_sell == grid.actual_bought_volume
        actual_price == GetOr(detail.avg_price, current_price)
        fee == GetOr(detail.paid_fee, FeeOf(volume_to_sell * actual_price))
        net_sell_krw == (volume_to_sell * actual_price) - fee
        profit == (volume_to_sell * actual_price) - grid.order_krw_amount
    IN [type |-> "sell", grid_level |-> grid_level, price |-> actual_price,
        amount |-> net_sell_krw, volume |-> volume_to_sell, fee |-> fee,
        profit |-> profit,
        profit_percentage |-> Percentage(profit, grid.order_krw_amount)]

\* trade dict of sell_coin
SellTrade(grid_level, grid, detail) ==
    LET volume_to_sell == grid.actual_bought_volume
        actual_price == GetOr(detail.avg_price, current_price)
        fee == GetOr(detail.paid_fee, FeeOf(volume_to_sell * actual_price))
        net_sell_krw == (volume_to_sell * actual_price) - fee
        profit == net_sell_krw - grid.order_krw_amount
    IN [type |-> "sell", grid_level |-> grid_level, price |-> actual_price,
        amount |-> net_sell_krw, volume |-> volume_to_sell, fee |-> fee,
        profit |-> profit,
        profit_percentage |-> Percentage(profit, grid.order_krw_amount)]

\* Mutant: the guard is missing.
NotBoughtNever(grid) == FALSE

\* if not grid['is_bought']: return False
NotBought(grid) == ~grid.is_bought

sell_coin(grid_level) ==
    LET k == GridIndex(grid_level)
        grid == grid_orders[k]
    IN IF NotBought(grid)
       THEN /\ ev' = Event("sell", grid_level, "false", FALSE, NoDetail)
            /\ UNCHANGED <<grid_orders, db_grid, trades, balance_rows, fills>>
       ELSE \E coin \in CoinReads, resp \in OrderResponses, detail \in OrderDetails,
               read \in BOOLEAN, grid_saved \in Writes, trade_saved \in Writes :
            LET out == SellOutcome(grid, coin, resp, detail)
                new == SoldGrid(grid)
                called == ~IsNone(coin) /\ ~(Val(coin) < grid.actual_bought_volume)
            IN \* replies of calls that are never made are not drawn
               /\ ~called => resp = "uuid"
               /\ ~out.ordered => detail = NoDetail
               /\ out.ret # "ok" => read /\ grid_saved = store_ok /\ trade_saved = store_ok
               /\ out.ret = "ok" => fills < MaxTrades
               /\ fills' = IF out.ret = "ok" THEN fills + 1 ELSE fills
               /\ ev' = [Event("sell", grid_level, Returned(out.ret, send(notify_ok)),
                               out.ordered, detail)
                            EXCEPT !.funds = coin,
                                   !.resp = IF called THEN resp ELSE "none",
                                   !.notified = IF out.ret = "ok" THEN send(notify_ok)
                                                ELSE "none"]
               /\ IF out.ret = "ok"
                  THEN /\ grid_orders' = [grid_orders EXCEPT ![k] = new]
                       /\ db_grid' = save_grid(db_grid, new, grid_saved)
                       /\ trades' = save_trade(trades, SellTrade(grid_level, grid, detail),
                                               trade_saved)
                       /\ balance_rows' = get_balance(balance_rows, read, store_ok)
                  ELSE UNCHANGED <<grid_orders, db_grid, trades, balance_rows>>

\* ------------------------------------------------------------ price reads

\* Mutant: the price handed on is the one of the read before.
get_current_price_lagging(reply) ==
    IF IsNone(reply)
    THEN UNCHANGED <<current_price, previous_price>>
    ELSE /\ current_price' = GetOr(previous_price, Val(reply))
         /\ previous_price' = reply

\* get_current_price: None leaves both globals alone; a price becomes
\* current_price and previous_price.
get_current_price(reply) ==
    IF IsNone(reply)
    THEN UNCHANGED <<current_price, previous_price>>
    ELSE /\ current_price' = Val(reply)
         /\ previous_price' = reply

\* ------------------------------------------------------- create_grid_orders

\* Mutant: the market price is used even when a base price is configured.
ResolveBaseMarket(input_base_price, current_market_price) == current_market_price

\* BASE_PRICE = input_base_price if input_base_price is not None else current_market_price
ResolveBase(input_base_price, current_market_price) ==
    GetOr(input_base_price, current_market_price)

\* Mutant: an interval of zero is let through.
InvalidIntervalNegativeOnly(d) == d < 0

\* if price_change_amount <= 0: return False
InvalidInterval(d) == d <= 0

\* create_grid_orders(input_base_price): "false" when the price read fails or
\* the resolved interval is not positive, else the grid is rebuilt and saved.
create_grid_orders(input_base_price, reply) ==
    LET Created(ret) ==
            [Event("create", 0, ret, FALSE, NoDetail)
                EXCEPT !.base_in = input_base_price, !.reply = reply]
    IN /\ get_current_price(reply)
       /\ IF IsNone(reply)
          THEN /\ ev' = Created("false")
               /\ UNCHANGED <<BASE_PRICE, grid_orders, db_grid>>
          ELSE LET base == ResolveBase(input_base_price, Val(reply))
                   d == price_change_amount(base, GRID_INTERVAL_PERCENT, PRICE_CHANGE)
                   grids == [i \in 1..MAX_GRID_COUNT |-> NewGrid(base, d, i - 1, ORDER_AMOUNT)]
               IN /\ BASE_PRICE' = Some(base)
                  /\ IF InvalidInterval(d)
                     THEN /\ ev' = Created("false")
                          /\ UNCHANGED <<grid_orders, db_grid>>
                     ELSE /\ ev' = Created("ok")
                          /\ grid_orders' = grids
                          /\ db_grid' = SaveAll(db_grid, grids, 1, store_ok)

\* ------------------------------------------------------------- coin_config

\* Values the operator may set budget_krw to.
Budgets == {0, ORDER_AMOUNT + PriceUnit}

\* Sum of order_krw_amount over the persisted rows of the ticker that are bought.
RECURSIVE InvestedCapital(_)
InvestedCapital(db) ==
    IF db = <<>> THEN 0
    ELSE (IF Head(db).ticker = TICKER /\ Head(db).is_bought
          THEN Head(db).order_krw_amount ELSE 0) + InvestedCapital(Tail(db))

\* Mutant: the proposed order is left out of the sum.
isWithinBudgetWithoutOrder(db, budget, proposedOrderAmount) ==
    IF budget <= 0 THEN TRUE
    ELSE InvestedCapital(db) <= budget

\* BudgetGuard.isWithinBudget
isWithinBudget(db, budget, proposedOrderAmount) ==
    IF budget <= 0 THEN TRUE
    ELSE InvestedCapital(db) + proposedOrderAmount <= budget

\* ------------------------------------------------------------- cycle log

Levels == 1..MaxGridCount

\* What one cycle did: whether trading was active and the cycle before was
\* paused, the price reply, the grid and trade count it started from and, per
\* loop position, the price compared against (seen), the grid dict as it was
\* evaluated (at), the branch taken (trig), the budget gate's answer and the
\* budget it read, whether an order went out, and per level the number of
\* times its is_bought flag flipped (acted).
NoCycle ==
    [started |-> FALSE, active |-> FALSE, after_pause |-> FALSE,
     price_read |-> FALSE, reply |-> None,
     pre |-> <<>>, ntrades |-> 0,
     seen |-> [l \in Levels |-> None],
     at |-> [l \in Levels |-> None],
     trig |-> [l \in Levels |-> "none"],
     gate |-> [l \in Levels |-> "none"],
     budget |-> [l \in Levels |-> 0],
     ordered |-> [l \in Levels |-> FALSE],
     acted |-> [l \in Levels |-> 0]]

NewCycle(active, price_read, reply) ==
    [NoCycle EXCEPT !.started = TRUE, !.active = active,
                    !.after_pause = (cycle.started /\ ~cycle.active),
                    !.price_read = price_read, !.reply = reply,
                    !.pre = grid_orders, !.ntrades = Len(trades)]

Logged(i, trig, gate) ==
    [cycle EXCEPT
        !.seen[i] = Some(current_price),
        !.at[i] = Some(grid_orders[i]),
        !.trig[i] = trig,
        !.gate[i] = gate,
        !.budget[i] = IF gate = "none" THEN 0 ELSE budget_krw,
        !.ordered[i] = ev'.ordered,
        !.acted = [l \in Levels |->
                     cycle.acted[l] +
                       (IF grid_orders'[l].is_bought # grid_orders[l].is_bought
                        THEN 1 ELSE 0)]]

\* ------------------------------------------------------ check_price_and_trade

\* Mutant: no lower bound on the price.
BuyConditionNoFloor(grid, price) ==
    /\ ~grid.is_bought
    /\ price <= grid.buy_price_target

\* if not grid['is_bought'] and grid['buy_price_min'] < current_price <= grid['buy_price_target']
BuyCondition(grid, price) ==
    /\ ~grid.is_bought
    /\ grid.buy_price_min < price
    /\ price <= grid.buy_price_target

\* Mutant: the sell target itself does not trigger.
SellConditionStrict(grid, price) ==
    /\ ~BuyCondition(grid, price)
    /\ grid.is_bought
    /\ price > grid.sell_price_target

\* elif grid['is_bought'] and current_price >= grid['sell_price_target']
SellCondition(grid, price) ==
    /\ ~BuyCondition(grid, price)
    /\ grid.is_bought
    /\ price >= grid.sell_price_target

\* if current_price is None or current_price <= 0: return False
ValidPrice(price) == ~(price <= 0)

\* Mutant: the loop stays on the level it just evaluated.
NextIdxStay(i) == i

\* for grid in grid_orders: the position after i, and where the worker is then.
NextIdx(i) == i + 1
AfterLevel(i) == IF i >= Len(grid_orders) THEN "Post" ELSE "Eval"

AtLevel ==
    /\ pc = "Eval"
    /\ idx \in 1..Len(grid_orders)

\* The buy branch, behind the budget gate.
EvalBuy ==
    /\ AtLevel
    /\ BuyCondition(grid_orders[idx], current_price)
    /\ LET grid == grid_orders[idx]
       IN IF isWithinBudget(db_grid, budget_krw, grid.order_krw_amount)
          THEN /\ buy_coin(grid.level)
               /\ cycle' = Logged(idx, "buy", "pass")
          ELSE /\ ev' = Event("gate", grid.level, "false", FALSE, NoDetail)
               /\ UNCHANGED <<grid_orders, db_grid, trades, balance_rows, fills>>
               /\ cycle' = Logged(idx, "buy", "fail")
    /\ traded' = (traded \/ ev'.ret = "ok")
    /\ idx' = NextIdx(idx)
    /\ pc' = AfterLevel(idx)
    /\ UNCHANGED <<config, current_price, previous_price, store_ok, control, outside>>

\* The sell branch; an exception out of sell_coin leaves run_trading.
EvalSell ==
    /\ AtLevel
    /\ SellCondition(grid_orders[idx], current_price)
    /\ sell_coin(grid_orders[idx].level)
    /\ cycle' = Logged(idx, "sell", "none")
    /\ traded' = (traded \/ ev'.ret = "ok")
    /\ idx' = NextIdx(idx)
    /\ pc' = IF ev'.ret = "raise" THEN "Exiting" ELSE AfterLevel(idx)
    /\ UNCHANGED <<config, current_price, previous_price, store_ok, control, outside>>

\* Neither condition holds: the level is left alone.
EvalNone ==
    /\ AtLevel
    /\ ~BuyCondition(grid_orders[idx], current_price)
    /\ ~SellCondition(grid_orders[idx], current_price)
    /\ ev' = Event("idle", grid_orders[idx].level, "none", FALSE, NoDetail)
    /\ UNCHANGED <<config, current_price, previous_price, grid_orders, store, control, traded, fills, outside>>
    /\ cycle' = Logged(idx, "none", "none")
    /\ idx' = NextIdx(idx)
    /\ pc' = AfterLevel(idx)

\* --------------------------------------------------------------- run_trading

\* run_trading up to the loop: the grid is built from the configured BASE_PRICE.
RunTrading ==
    /\ pc = "Idle"
    /\ \E reply \in PriceReplies : create_grid_orders(BASE_PRICE, reply)
    /\ pc' = IF ev'.ret = "ok" THEN "Loop" ELSE "Exiting"
    /\ UNCHANGED <<PRICE_CHANGE, GRID_INTERVAL_PERCENT, MAX_GRID_COUNT, ORDER_AMOUNT,
                   trades, balance_rows, store_ok, control, idx, traded, cycle, fills, outside>>

\* Mutant: the reply is not checked.
PriceAvailableAlways(reply) == TRUE

\* if get_current_price() is not None
PriceAvailable(reply) == ~IsNone(reply)

\* Mutant: the flag is ignored.
TradingEnabledAlways(active) == TRUE

\* Step 1 of the cycle: trading runs only while coin_config.is_active is set.
TradingEnabled(active) == active

\* Top of the while loop while trading is paused: heartbeat only.
CyclePaused ==
    /\ pc = "Loop"
    /\ ~TradingEnabled(is_active)
    /\ cycle' = NewCycle(is_active, FALSE, None)
    /\ ev' = NoEvent
    /\ UNCHANGED <<config, current_price, previous_price, grid_orders, store, control,
                   pc, idx, traded, fills, outside>>

\* Top of the while loop: the price read, and the entry of check_price_and_trade.
CycleStart ==
    /\ pc = "Loop"
    /\ TradingEnabled(is_active)
    /\ \E reply \in PriceReplies :
          /\ get_current_price(reply)
          /\ cycle' = NewCycle(is_active, TRUE, reply)
          /\ pc' = IF ~PriceAvailable(reply) THEN "Loop"
                   ELSE IF ~ValidPrice(current_price') THEN "Post"
                   ELSE "Eval"
    /\ idx' = 1
    /\ traded' = FALSE
    /\ ev' = NoEvent
    /\ UNCHANGED <<config, grid_orders, store, control, fills, outside>>

\* After check_price_and_trade: the balance snapshot when a trade happened or
\* the 120 s timer ran out (due), then the sleep.  traded is dead from here to
\* the next call of check_price_and_trade, and the call log is closed.
CycleEnd ==
    /\ pc = "Post"
    /\ \E due \in BOOLEAN, read \in BOOLEAN :
          /\ (traded \/ due) \/ read
          /\ balance_rows' = IF traded \/ due
                             THEN get_balance(balance_rows, read, store_ok)
                             ELSE balance_rows
    /\ pc' = "Loop"
    /\ traded' = FALSE
    /\ ev' = NoEvent
    /\ UNCHANGED <<config, current_price, previous_price, grid_orders, db_grid, trades,
                   store_ok, control, idx, cycle, fills, outside>>

\* KeyboardInterrupt while the loop runs.
Interrupt ==
    /\ pc \in {"Loop", "Eval", "Post"}
    /\ pc' = "Exiting"
    /\ UNCHANGED <<config, current_price, previous_price, grid_orders, store, control,
                   idx, traded, ev, cycle, fills, outside>>

\* KeyboardInterrupt inside buy_coin, after buy_market_order returned a uuid and
\* before the order's detail is applied (time.sleep(2), get_order): it is not
\* an Exception, so buy_coin's handler lets it through to main.
InterruptBuy ==
    /\ AtLevel
    /\ BuyCondition(grid_orders[idx], current_price)
    /\ isWithinBudget(db_grid, budget_krw, grid_orders[idx].order_krw_amount)
    /\ ~AlreadyBought(grid_orders[GridIndex(grid_orders[idx].level)])
    /\ ev' = [Event("buy", grid_orders[idx].level, "interrupted", TRUE, NoDetail)
                EXCEPT !.funds = Some(grid_orders[idx].order_krw_amount),
                       !.resp = "uuid"]
    /\ UNCHANGED <<config, current_price, previous_price, grid_orders, store, control,
                   traded, fills, outside>>
    /\ cycle' = Logged(idx, "buy", "pass")
    /\ idx' = NextIdx(idx)
    /\ pc' = "Exiting"

\* The same inside sell_coin, after sell_market_order returned a uuid.
InterruptSell ==
    /\ AtLevel
    /\ SellCondition(grid_orders[idx], current_price)
    /\ ~NotBought(grid_orders[GridIndex(grid_orders[idx].level)])
    /\ ev' = [Event("sell", grid_orders[idx].level, "interrupted", TRUE, NoDetail)
                EXCEPT !.funds = Some(grid_orders[idx].actual_bought_volume),
                       !.resp = "uuid"]
    /\ UNCHANGED <<config, current_price, previous_price, grid_orders, store, control,
                   traded, fills, outside>>
    /\ cycle' = Logged(idx, "sell", "none")
    /\ idx' = NextIdx(idx)
    /\ pc' = "Exiting"

\* main's finally block: a last balance snapshot, and the process ends.
Finalize ==
    /\ pc = "Exiting"
    /\ \E read \in BOOLEAN : balance_rows' = get_balance(balance_rows, read, store_ok)
    /\ pc' = "Stopped"
    /\ UNCHANGED <<config, current_price, previous_price, grid_orders, db_grid, trades,
                   store_ok, control, idx, traded, ev, cycle, fills, outside>>

\* The operator's dashboard toggles is_active or sets budget_krw.  is_active is
\* read at the top of a cycle only, so a toggle during a cycle is the same as
\* one right after it; budget_krw is read by the gate inside the cycle.
SetActive ==
    /\ pc = "Loop"
    /\ is_active' = ~is_active
    /\ UNCHANGED <<config, current_price, previous_price, grid_orders, store, budget_krw,
                   pc, idx, traded, ev, cycle, fills, outside>>

SetBudget ==
    /\ pc \in {"Loop", "Eval"}
    /\ \E b \in Budgets \ {budget_krw} : budget_krw' = b
    /\ UNCHANGED <<config, current_price, previous_price, grid_orders, store, is_active,
                   pc, idx, traded, ev, cycle, fills, outside>>

\* The bot is started again for the same ticker: the module globals are set
\* afresh by setup_application, the database file is the one of the last run.
Restart ==
    /\ pc = "Stopped"
    /\ pc' = "Idle"
    /\ \E c \in RunCoins : BASE_PRICE' = c.BASE_PRICE
    /\ current_price' = 0
    /\ previous_price' = None
    /\ grid_orders' = <<>>
    /\ idx' = 1
    /\ traded' = FALSE
    /\ ev' = NoEvent
    /\ cycle' = NoCycle
    /\ UNCHANGED <<PRICE_CHANGE, GRID_INTERVAL_PERCENT, MAX_GRID_COUNT, ORDER_AMOUNT,
                   store, control, fills, outside>>

\* ---------------------------------------------------------------- db_handler

\* get_db_mode(): APP_MODE is "TEST" (SQLite) or anything else (PostgreSQL).
DbModes == {"TEST", "PRODUCTION"}

\* The columns of the UNIQUE constraint of the grid table, and the columns an
\* upsert sets.
GridKey == <<"ticker", "grid_level">>
GridSetColumns == {"is_bought", "actual_bought_volume"}

\* A term on the right of SET col = ...: a column name, bare or qualified.
Term(qualifier, column) == [qualifier |-> qualifier, column |-> column]

\* INSERT INTO grid (...) VALUES (params) ON CONFLICT (ticker, grid_level)
\* DO UPDATE SET col = EXCLUDED.col, for every column set.
GridUpsert(row) ==
    [target |-> GridKey, row |-> row,
     set |-> [c \in GridSetColumns |-> Term("EXCLUDED", c)]]

\* The statements and parameters callers hand to execute.
GridUpserts ==
    {GridUpsert([ticker |-> TICKER, grid_level |-> l,
                 is_bought |-> b, actual_bought_volume |-> v]) :
        l \in Levels, b \in BOOLEAN, v \in 0..MaxVolume}

\* The rows of a table that hold the statement's key.
Conflicts(table, sql) ==
    {i \in 1..Len(table) :
        /\ table[i].ticker = sql.row.ticker
        /\ table[i].grid_level = sql.row.grid_level}

\* cursor.execute(sql, params) of either engine on a table with
\* UNIQUE (ticker, grid_level): without a conflict the row is inserted; on a
\* conflict each SET term is evaluated, EXCLUDED.col as the value proposed for
\* insertion and a bare col as the value of the row already there.
Upsert(table, sql) ==
    LET Eval(term, old) ==
            IF term.qualifier = "EXCLUDED" THEN sql.row[term.column]
            ELSE old[term.column]
        Updated(old) ==
            [c \in DOMAIN old |->
                IF c \in DOMAIN sql.set THEN Eval(sql.set[c], old) ELSE old[c]]
    IN IF Conflicts(table, sql) = {}
       THEN Append(table, sql.row)
       ELSE [i \in 1..Len(table) |->
                IF i \in Conflicts(table, sql) THEN Updated(table[i]) ELSE table[i]]

\* sql.replace("EXCLUDED.", "")
StripExcluded(sql) ==
    [sql EXCEPT !.set = [c \in DOMAIN sql.set |->
                            IF sql.set[c].qualifier = "EXCLUDED"
                            THEN Term("", sql.set[c].column)
                            ELSE sql.set[c]]]

\* sqlite_execute: the statement is rewritten when it holds one of the two
\* ON CONFLICT clauses, then executed and committed.
sqlite_execute(table, sql) ==
    LET grid_sql == IF sql.target = GridKey THEN StripExcluded(sql) ELSE sql
        coin_sql == IF grid_sql.target = <<"ticker">> THEN StripExcluded(grid_sql)
                    ELSE grid_sql
    IN Upsert(table, coin_sql)

\* pg_execute: the statement is executed as it is and committed.
pg_execute(table, sql) == Upsert(table, sql)

\* execute(sql, params)
execute(mode, table, sql) ==
    IF mode = "TEST" THEN sqlite_execute(table, sql) ELSE pg_execute(table, sql)

\* No statement executed yet on the empty tables of create_all_tables; sql is
\* the last statement (Optional) and existed whether its key had a row.
NoDatabases ==
    [grid |-> [m \in DbModes |-> <<>>], sql |-> None, existed |-> FALSE]

\* The same statement handed to execute under each APP_MODE, each mode on its
\* own database.
Execute ==
    /\ \E sql \in GridUpserts :
          databases' =
             [grid |-> [m \in DbModes |-> execute(m, databases.grid[m], sql)],
              sql |-> Some(sql),
              existed |-> Conflicts(databases.grid["TEST"], sql) # {}]
    /\ UNCHANGED <<config, current_price, previous_price, grid_orders, store, control,
                   pc, idx, traded, ev, cycle, fills, notify_ok, peer_mem, peer_file>>

\* Callers of db_handler writing grid rows in any order.
NextDb ==
    \/ Execute

\* The second process before it is started, and an empty database file (init_db).
NoPeer == [grid_orders |-> <<>>, current_price |-> 0]
NoFile == [grid |-> <<>>, trades |-> <<>>, balance_history |-> "none"]

\* The module's globals after setup_application(ticker) for a coin of coins.
InitWith(coins) ==
    /\ \E c \in coins :
          /\ BASE_PRICE = c.BASE_PRICE
          /\ PRICE_CHANGE = c.PRICE_CHANGE
          /\ GRID_INTERVAL_PERCENT = c.GRID_INTERVAL_PERCENT
          /\ ORDER_AMOUNT = c.ORDER_AMOUNT
    /\ MAX_GRID_COUNT = MaxGridCount
    /\ current_price = 0
    /\ previous_price = None
    /\ grid_orders = <<>>
    /\ db_grid = <<>>
    /\ trades = <<>>
    /\ balance_rows = "none"
    /\ store_ok = TRUE
    /\ is_active = TRUE
    /\ budget_krw = 0
    /\ pc = "Idle"
    /\ idx = 1
    /\ traded = FALSE
    /\ ev = NoEvent
    /\ cycle = NoCycle
    /\ fills = 0
    /\ notify_ok = TRUE
    /\ peer_mem = NoPeer
    /\ peer_file = NoFile
    /\ databases = NoDatabases

Init == InitWith(RunCoins)

\* The worker of src/product_app.py; coin_config keeps its defaults
\* (is_active true, budget_krw 0).
Next ==
    \/ RunTrading
    \/ CycleStart
    \/ EvalBuy
    \/ EvalSell
    \/ EvalNone
    \/ CycleEnd
    \/ Finalize

Spec == Init /\ [][Next]_vars

\* The exchange fills the buy order of level l in this cycle.
BuyFills(l) ==
    /\ EvalBuy
    /\ idx = l
    /\ ev'.ret = "ok"

\* The worker as scheduled: the while True loop of run_trading keeps taking
\* steps, and an exchange that is asked again and again to fill a level's buy
\* order does fill it at some point.
SpecLive ==
    /\ Init
    /\ [][Next]_vars
    /\ WF_vars(Next)
    /\ \A l \in Levels : SF_vars(BuyFills(l))

\* The worker with an operator changing coin_config while it runs.
NextControl ==
    \/ Next
    \/ CyclePaused
    \/ SetActive
    \/ SetBudget

SpecControl == Init /\ [][NextControl]_vars

\* Grid construction alone, over every configuration.
NextConstruct ==
    \/ RunTrading
    \/ Finalize

SpecConstruct == InitWith(AllCoins) /\ [][NextConstruct]_vars

\* The worker with Ctrl-C arriving at any point of a run, and restarts of the
\* stopped bot on the same database.
NextShutdown ==
    \/ Next
    \/ Interrupt
    \/ InterruptBuy
    \/ InterruptSell
    \/ Restart

SpecShutdown == Init /\ [][NextShutdown]_vars

\* create_grid_orders, buy_coin and sell_coin called directly: the grid is built
\* at a failed price read, at a price inside level 1's band or at one above
\* every sell target, then the levels are bought and sold in any order at
\* that price.
ApiCreate ==
    /\ pc = "Idle"
    /\ \E reply \in {None, BASE_PRICE, Some(MaxPriceK * PriceUnit)} :
          create_grid_orders(BASE_PRICE, reply)
    /\ pc' = IF ev'.ret = "ok" THEN "Loop" ELSE "Exiting"
    /\ UNCHANGED <<PRICE_CHANGE, GRID_INTERVAL_PERCENT, MAX_GRID_COUNT, ORDER_AMOUNT,
                   trades, balance_rows, store_ok, control, idx, traded, cycle, fills, outside>>

ApiBuy ==
    /\ pc = "Loop"
    /\ ValidPrice(current_price)
    /\ \E grid_level \in 1..Len(grid_orders) : buy_coin(grid_level)
    /\ UNCHANGED <<config, current_price, previous_price, store_ok, control,
                   pc, idx, traded, cycle, outside>>

ApiSell ==
    /\ pc = "Loop"
    /\ ValidPrice(current_price)
    /\ \E grid_level \in 1..Len(grid_orders) : sell_coin(grid_level)
    /\ UNCHANGED <<config, current_price, previous_price, store_ok, control,
                   pc, idx, traded, cycle, outside>>

NextApi ==
    \/ ApiCreate
    \/ ApiBuy
    \/ ApiSell

SpecApi == Init /\ [][NextApi]_vars

\* The Discord webhook goes down or comes back.
SinkToggle ==
    /\ notify_ok' = ~notify_ok
    /\ UNCHANGED <<config, current_price, previous_price, grid_orders, store, control,
                   pc, idx, traded, ev, cycle, fills, peer_mem, peer_file, databases>>

\* ------------------------------------------------------- a second process

\* The other ticker of COIN_LIST, run by a process of its own.
PEER == "KRW-ETH"

\* PathConfig.__init__: ticker.replace('KRW-', '').lower()
ticker_id(ticker) ==
    CASE ticker = "KRW-BTC" -> "btc"
      [] ticker = "KRW-ETH" -> "eth"

\* Mutant: one database file for every ticker.
get_db_filename_shared(ticker) == <<"data", "trading.db">>

\* PathConfig.get_db_filename: data/<ticker_id>/trading.db
get_db_filename(ticker) == <<"data", ticker_id(ticker), "trading.db">>

\* The database file the process of PEER has open: DB_FILE of that process.
PeerFile ==
    IF get_db_filename(PEER) = get_db_filename(TICKER)
    THEN [grid |-> db_grid, trades |-> trades, balance_history |-> balance_rows]
    ELSE peer_file

\* A commit of the process of PEER to its DB_FILE.
PeerWrites(file) ==
    IF get_db_filename(PEER) = get_db_filename(TICKER)
    THEN /\ db_grid' = file.grid
         /\ trades' = file.trades
         /\ balance_rows' = file.balance_history
         /\ UNCHANGED peer_file
    ELSE /\ peer_file' = file
         /\ UNCHANGED <<db_grid, trades, balance_rows>>

\* save_grid and save_trade as the process of PEER runs them: its TICKER global
\* is PEER.
PeerSaveGrid(db, g) ==
    LET row == [GridRow(g) EXCEPT !.ticker = PEER]
        hits == {i \in 1..Len(db) : db[i].grid_level = g.level /\ db[i].ticker = PEER}
    IN IF hits # {}
       THEN [db EXCEPT ![CHOOSE i \in hits : \A j \in hits : j <= i] = row]
       ELSE Append(db, row)

PeerSaveTrade(log, t) == Append(log, [TradeRow(t) EXCEPT !.ticker = PEER])

\* Everything of this process a step of PEER's process leaves alone.
PeerFrame ==
    UNCHANGED <<config, current_price, previous_price, grid_orders, store_ok, control,
                pc, idx, traded, ev, cycle, fills, notify_ok, databases>>

\* run_trading of PEER up to the loop: a grid of one level at the price read.
PeerConstruct ==
    /\ peer_mem.grid_orders = <<>>
    /\ LET price == 5 * PriceUnit
           grid == NewGrid(price, 2 * PriceUnit, 0, ORDER_AMOUNT)
       IN /\ peer_mem' = [grid_orders |-> <<grid>>, current_price |-> price]
          /\ PeerWrites([PeerFile EXCEPT !.grid = PeerSaveGrid(@, grid)])
    /\ PeerFrame

\* A cycle of PEER at its buy target, the order filled.
PeerBuy ==
    /\ peer_mem.grid_orders # <<>>
    /\ ~AlreadyBought(peer_mem.grid_orders[1])
    /\ Len(PeerFile.trades) < MaxTrades
    /\ LET grid == peer_mem.grid_orders[1]
           price == grid.buy_price_target
           detail == Detail(FALSE, Some(MaxVolume), Some(price), Some(0))
           new == BoughtGrid(grid, detail)
       IN /\ peer_mem' = [grid_orders |-> <<new>>, current_price |-> price]
          /\ PeerWrites([grid |-> PeerSaveGrid(PeerFile.grid, new),
                         trades |-> PeerSaveTrade(PeerFile.trades, BuyTrade(1, new, detail)),
                         balance_history |-> save_balance(PeerFile.balance_history, TRUE)])
    /\ PeerFrame

\* A cycle of PEER at its sell target, the order filled.
PeerSell ==
    /\ peer_mem.grid_orders # <<>>
    /\ ~NotBought(peer_mem.grid_orders[1])
    /\ Len(PeerFile.trades) < MaxTrades
    /\ LET grid == peer_mem.grid_orders[1]
           price == grid.sell_price_target
           detail == Detail(FALSE, Some(grid.actual_bought_volume), Some(price), Some(0))
           new == SoldGrid(grid)
       IN /\ peer_mem' = [grid_orders |-> <<new>>, current_price |-> price]
          /\ PeerWrites([grid |-> PeerSaveGrid(PeerFile.grid, new),
                         trades |-> PeerSaveTrade(PeerFile.trades, SellTrade(1, grid, detail)),
                         balance_history |-> save_balance(PeerFile.balance_history, TRUE)])
    /\ PeerFrame

\* Two processes, one per ticker, stepping in any order.
NextWorkers ==
    \/ Next
    \/ PeerConstruct
    \/ PeerBuy
    \/ PeerSell

SpecWorkers == Init /\ [][NextWorkers]_vars

\* The database starts or stops failing writes (locked file, full disk).
StoreToggle ==
    /\ store_ok' = ~store_ok
    /\ UNCHANGED <<config, current_price, previous_price, grid_orders, db_grid, trades,
                   balance_rows, control, pc, idx, traded, ev, cycle, fills, outside>>

\* The worker on a database whose writes may fail.
NextFault ==
    \/ Next
    \/ StoreToggle

SpecFault == Init /\ [][NextFault]_vars

\* The direct calls with the webhook failing at any time.
NextNotify ==
    \/ NextApi
    \/ SinkToggle

SpecNotify == Init /\ [][NextNotify]_vars

SpecDb == Init /\ [][NextDb]_vars

\* ------------------------------------------------------------------ claims

\* C1: every grid create_grid_orders builds from base price b, resolved
\* interval d > 0 and N levels has N levels, level i with buy target
\* b - (i-1)*d and sell target = buy target + d, so adjacent buy targets are
\* exactly d apart.
C1_GridTargets ==
    (ev.op = "create" /\ ev.ret = "ok") =>
        LET b == Val(BASE_PRICE)
            d == IF GRID_INTERVAL_PERCENT > 0
                 THEN (b * GRID_INTERVAL_PERCENT) \div 100
                 ELSE PRICE_CHANGE
            N == MAX_GRID_COUNT
        IN /\ d > 0
           /\ Len(grid_orders) = N
           /\ \A i \in 1..N :
                 /\ grid_orders[i].level = i
                 /\ grid_orders[i].buy_price_target = b - (i - 1) * d
                 /\ grid_orders[i].sell_price_target = grid_orders[i].buy_price_target + d
           /\ \A i \in 1..(N - 1) :
                 grid_orders[i].buy_price_target - grid_orders[i + 1].buy_price_target = d

\* A grid built from base 5 units and a fixed interval of 2 units.
C1_Witness ==
    /\ ev.op = "create"
    /\ ev.ret = "ok"
    /\ Len(grid_orders) >= 2
    /\ grid_orders[1].buy_price_target = 5 * PriceUnit
    /\ grid_orders[1].sell_price_target = 7 * PriceUnit
    /\ grid_orders[2].buy_price_target = 3 * PriceUnit
    /\ grid_orders[2].sell_price_target = 5 * PriceUnit

\* C2 as stated: in one evaluation at price p, every level that is not bought
\* and has p <= buyPriceTarget triggers a Buy, with no lower bound on p.
C2_BuyWithoutFloor ==
    \A i \in Levels :
        (/\ cycle.started
         /\ ~IsNone(cycle.seen[i])
         /\ ~Val(cycle.at[i]).is_bought
         /\ Val(cycle.seen[i]) <= Val(cycle.at[i]).buy_price_target)
            => cycle.trig[i] = "buy"

\* C2: in one evaluation at price p, a level triggers a Buy if and only if it
\* is not bought and buyPriceTarget - d < p <= buyPriceTarget, d being the
\* level's interval (sellPriceTarget - buyPriceTarget).
C2_BuyBand ==
    \A i \in Levels :
        (cycle.started /\ ~IsNone(cycle.seen[i])) =>
            LET g == Val(cycle.at[i])
                p == Val(cycle.seen[i])
                d == g.sell_price_target - g.buy_price_target
            IN cycle.trig[i] = "buy" <=>
                   /\ ~g.is_bought
                   /\ g.buy_price_target - d < p
                   /\ p <= g.buy_price_target

\* One evaluation in which level 1 is unbought with the price at or under its
\* target and does not trigger, while level 2 triggers a Buy.
C2_Witness ==
    /\ cycle.started
    /\ ~IsNone(cycle.seen[1])
    /\ ~IsNone(cycle.seen[2])
    /\ ~Val(cycle.at[1]).is_bought
    /\ Val(cycle.seen[1]) <= Val(cycle.at[1]).buy_price_target
    /\ cycle.trig[1] = "none"
    /\ ~Val(cycle.at[2]).is_bought
    /\ cycle.trig[2] = "buy"

\* C3: in one evaluation at price p, a level triggers a Sell if and only if it
\* is bought and p >= sellPriceTarget; a bought level with p < sellPriceTarget
\* and an unbought level with p > buyPriceTarget trigger nothing.
C3_SellTrigger ==
    \A i \in Levels :
        (cycle.started /\ ~IsNone(cycle.seen[i])) =>
            LET g == Val(cycle.at[i])
                p == Val(cycle.seen[i])
            IN /\ cycle.trig[i] = "sell" <=> (g.is_bought /\ p >= g.sell_price_target)
               /\ (g.is_bought /\ p < g.sell_price_target) => cycle.trig[i] = "none"
               /\ (~g.is_bought /\ p > g.buy_price_target) => cycle.trig[i] = "none"

\* A bought level evaluated at exactly its sell target triggers a Sell.
C3_Witness ==
    \E i \in Levels :
        /\ cycle.started
        /\ ~IsNone(cycle.seen[i])
        /\ Val(cycle.at[i]).is_bought
        /\ Val(cycle.seen[i]) = Val(cycle.at[i]).sell_price_target
        /\ cycle.trig[i] = "sell"

\* C4: within one cycle the bought flag of every level flips at most once: no
\* level is bought and sold, bought twice or sold twice in one evaluation.
C4_OncePerCycle ==
    \A l \in Levels : cycle.acted[l] <= 1

\* Level 1's buy succeeded and the same cycle went on to evaluate level 2.
C4_Witness ==
    /\ cycle.started
    /\ cycle.trig[1] = "buy"
    /\ cycle.acted[1] = 1
    /\ ~IsNone(cycle.seen[2])

\* C5: buy_coin on a level that is already bought returns False, submits no
\* order, leaves every level as it was and appends no trade; sell_coin on a
\* level that is not bought does the same.
C5_FailedPreconditionNoOp ==
    /\ (ev.op = "buy" /\ ev.pre[ev.level].is_bought) =>
           /\ ev.ret = "false"
           /\ ~ev.ordered
           /\ grid_orders = ev.pre
           /\ Len(trades) = ev.ntrades
    /\ (ev.op = "sell" /\ ~ev.pre[ev.level].is_bought) =>
           /\ ev.ret = "false"
           /\ ~ev.ordered
           /\ grid_orders = ev.pre
           /\ Len(trades) = ev.ntrades

\* buy_coin was called on a level bought before, its trade on record.
C5_Witness ==
    /\ ev.op = "buy"
    /\ ev.pre[ev.level].is_bought
    /\ ev.pre[ev.level].actual_bought_volume > 0
    /\ ev.ret = "false"
    /\ \E k \in 1..Len(trades) :
          trades[k].type = "buy" /\ trades[k].grid_level = ev.level

\* C6: after a successful buy of a level with fill volume v and a successful
\* sell of it at fill price p2 with fee f2, the level is not bought with
\* volume 0 and fill price 0, and the sell trade on record has
\* profit = (p2 * v - f2) - orderAmount and
\* profitPercentage = profit / orderAmount * 100.
C6_RoundTrip ==
    (ev.op = "sell" /\ ev.ret = "ok") =>
        LET l == ev.level
            g == grid_orders[l]
            t == trades[Len(trades)]
            buys == {k \in 1..(Len(trades) - 1) :
                        trades[k].type = "buy" /\ trades[k].grid_level = l}
            last == CHOOSE k \in buys : \A j \in buys : j <= k
            v == trades[last].volume
            p2 == GetOr(ev.detail.avg_price, current_price)
            f2 == GetOr(ev.detail.paid_fee, FeeOf(v * p2))
        IN /\ buys # {}
           /\ ~g.is_bought
           /\ g.actual_bought_volume = 0
           /\ g.actual_buy_fill_price = 0
           /\ t.type = "sell"
           /\ t.grid_level = l
           /\ t.price = p2
           /\ t.fee = f2
           /\ t.profit = (p2 * v - f2) - g.order_krw_amount
           /\ t.profit_percentage.num = t.profit * 100
           /\ t.profit_percentage.den = g.order_krw_amount

\* A round trip whose sell reported its own fill price and fee.
C6_Witness ==
    /\ ev.op = "sell"
    /\ ev.ret = "ok"
    /\ ~IsNone(ev.detail.avg_price)
    /\ ~IsNone(ev.detail.paid_fee)
    /\ Len(trades) >= 2
    /\ trades[Len(trades)].type = "sell"
    /\ trades[Len(trades)].profit # 0

C8_BudgetGate ==
    /\ \A i \in Levels :
          /\ cycle.trig[i] = "buy" <=> cycle.gate[i] \in {"pass", "fail"}
          /\ cycle.gate[i] = "fail" =>
                /\ cycle.budget[i] > 0
                /\ ~cycle.ordered[i]
                /\ cycle.acted[i] = 0
                /\ pc \in {"Post", "Loop"} => ~grid_orders[i].is_bought
    /\ ev.op \in {"buy", "gate"} =>
          LET invested ==
                  InvestedCapital([i \in 1..Len(ev.pre) |-> GridRow(ev.pre[i])])
              budget == cycle.budget[ev.level]
              order == ev.pre[ev.level].order_krw_amount
          IN ev.op = "buy" <=> (budget <= 0 \/ invested + order <= budget)

\* A cycle ended with a buy the gate refused: one level invested, the budget
\* too small for a second order.
C8_Witness ==
    \E i \in Levels :
        /\ cycle.gate[i] = "fail"
        /\ pc = "Post"
        /\ cycle.budget[i] = ORDER_AMOUNT + PriceUnit
        /\ ~grid_orders[i].is_bought
        /\ InvestedCapital(db_grid) = ORDER_AMOUNT

\* C9: a cycle that starts while is_active is false reads no price, sends no
\* order and changes no level and no trade, and the worker stays in its loop;
\* a cycle that starts while is_active is true reads the price and trades.
C9_PausedCycle ==
    cycle.started =>
        /\ cycle.active <=> cycle.price_read
        /\ ~cycle.active =>
              /\ pc = "Loop"
              /\ grid_orders = cycle.pre
              /\ Len(trades) = cycle.ntrades
              /\ \A l \in Levels :
                    /\ IsNone(cycle.seen[l])
                    /\ ~cycle.ordered[l]
                    /\ cycle.acted[l] = 0

\* The first cycle after a paused one trades again.
C9_Witness ==
    /\ cycle.started
    /\ cycle.after_pause
    /\ cycle.active
    /\ cycle.price_read
    /\ \E l \in Levels : cycle.ordered[l] /\ cycle.acted[l] = 1

\* C10: a cycle whose price read returns nothing evaluates no level at any
\* price, sends no order and changes no level and no trade, and the worker is
\* back at the top of its loop.
C10_PriceUnavailable ==
    (cycle.started /\ cycle.price_read /\ IsNone(cycle.reply)) =>
        /\ pc = "Loop"
        /\ ev = NoEvent
        /\ grid_orders = cycle.pre
        /\ Len(trades) = cycle.ntrades
        /\ \A l \in Levels :
              /\ IsNone(cycle.seen[l])
              /\ cycle.trig[l] = "none"
              /\ ~cycle.ordered[l]
              /\ cycle.acted[l] = 0

\* A price read failed after an earlier cycle had bought a level.
C10_Witness ==
    /\ cycle.started
    /\ cycle.price_read
    /\ IsNone(cycle.reply)
    /\ pc = "Loop"
    /\ current_price > 0
    /\ \E l \in Levels : grid_orders[l].is_bought

\* C11: a buy whose order is rejected, whose fill confirmation raises or
\* whose reported filled volume is zero leaves the level not bought with
\* volume 0 and appends no trade, and the cycle goes on to evaluate the
\* remaining levels.
C11_FailedBuy ==
    /\ (/\ ev.op = "buy"
        /\ ~ev.pre[ev.level].is_bought
        /\ \/ ev.resp \in {"rejected", "raise"}
           \/ /\ ev.resp = "uuid"
              /\ (ev.detail.raise \/ GetOr(ev.detail.executed_volume, 0) <= 0))
          => /\ ev.ret = "false"
             /\ grid_orders = ev.pre
             /\ ~grid_orders[ev.level].is_bought
             /\ grid_orders[ev.level].actual_bought_volume = 0
             /\ Len(trades) = ev.ntrades
             /\ pc \in {"Eval", "Post", "Loop"}
             /\ pc = "Eval" => idx = ev.level + 1
    /\ \A i \in Levels :
          (/\ cycle.trig[i] = "buy"
           /\ cycle.gate[i] = "pass"
           /\ cycle.acted[i] = 0
           /\ pc \in {"Post", "Loop"})
              => \A j \in Levels : ~IsNone(cycle.seen[j])

\* Level 1's buy order went out and was not filled, and the same cycle went on
\* to evaluate level 2 and ended.
C11_Witness ==
    /\ cycle.trig[1] = "buy"
    /\ cycle.ordered[1]
    /\ cycle.acted[1] = 0
    /\ ~grid_orders[1].is_bought
    /\ Len(trades) = cycle.ntrades
    /\ ~IsNone(cycle.seen[2])
    /\ pc = "Post"


\* C12: a sell whose fill confirmation reports zero executed volume leaves the
\* level bought with its volume and fill price unchanged and appends no sell
\* trade.
C12_ZeroFillSell ==
    (/\ ev.op = "sell"
     /\ ev.pre[ev.level].is_bought
     /\ ev.resp = "uuid"
     /\ ~ev.detail.raise
     /\ ev.detail.executed_volume = Some(0))
        => /\ grid_orders = ev.pre
           /\ grid_orders[ev.level].is_bought
           /\ Len(trades) = ev.ntrades

\* C13: a sell order is submitted only when the coin balance read is at least
\* the level's recorded volume, a buy order only when the KRW balance read is
\* at least the order amount; with a smaller balance no order call is made,
\* the level is unchanged, no trade is appended and the cycle goes on with the
\* other levels.
C13_InsufficientBalance ==
    /\ (ev.op \in {"buy", "sell"} /\ (ev.ordered \/ ev.ret = "ok" \/ ev.resp # "none")) =>
          LET need == IF ev.op = "buy"
                      THEN ev.pre[ev.level].order_krw_amount
                      ELSE ev.pre[ev.level].actual_bought_volume
          IN ~IsNone(ev.funds) /\ Val(ev.funds) >= need
    /\ (/\ ev.op \in {"buy", "sell"}
        /\ ev.pre[ev.level].is_bought = (ev.op = "sell")
        /\ ~IsNone(ev.funds)
        /\ Val(ev.funds) < (IF ev.op = "buy"
                            THEN ev.pre[ev.level].order_krw_amount
                            ELSE ev.pre[ev.level].actual_bought_volume))
          => /\ ev.ret = "false"
             /\ ev.resp = "none"
             /\ ~ev.ordered
             /\ grid_orders = ev.pre
             /\ Len(trades) = ev.ntrades
             /\ pc \in {"Eval", "Post", "Loop"}
             /\ pc = "Eval" => idx = ev.level + 1

\* Level 1's sell was skipped for lack of coin and the cycle moved on to
\* level 2.
C13_Witness ==
    /\ ev.op = "sell"
    /\ ev.level = 1
    /\ ev.pre[1].is_bought
    /\ ev.funds = Some(0)
    /\ ev.ret = "false"
    /\ grid_orders[1].is_bought
    /\ pc = "Eval"
    /\ idx = 2

\* C14: with no shutdown signal, a worker that has started its loop never
\* leaves it: no error raised during a cycle takes it to the exit path.
C14_NeverStopsOnError ==
    cycle.started => pc \notin {"Exiting", "Stopped"}

\* C15: when the price read of create_grid_orders fails or the resolved
\* interval is <= 0, construction returns False and the worker goes to the exit
\* path without entering its loop: no cycle has run, no order was filled and
\* no grid level exists in memory or in the store.
C15_ConstructFailure ==
    (/\ ev.op = "create"
     /\ \/ IsNone(ev.reply)
        \/ LET base == GetOr(ev.base_in, Val(ev.reply))
               d == IF GRID_INTERVAL_PERCENT > 0
                    THEN (base * GRID_INTERVAL_PERCENT) \div 100
                    ELSE PRICE_CHANGE
           IN d <= 0)
        => /\ ev.ret = "false"
           /\ pc \in {"Exiting", "Stopped"}
           /\ ~cycle.started
           /\ fills = 0
           /\ grid_orders = <<>>
           /\ db_grid = <<>>
           /\ trades = <<>>

\* Construction failed on the interval, after a good price read, and the
\* process has ended.
C15_Witness ==
    /\ ev.op = "create"
    /\ ev.ret = "false"
    /\ ~IsNone(ev.reply)
    /\ Val(ev.reply) > 0
    /\ pc = "Stopped"

\* C16: with a good price read, the interval is basePrice * percentage / 100
\* when the configured percentage is > 0, whatever fixed amount is configured,
\* and the fixed amount otherwise; construction succeeds exactly when that
\* interval is > 0, and the grid it builds is spaced by it.
C16_IntervalResolution ==
    (ev.op = "create" /\ ~IsNone(ev.reply)) =>
        LET base == Val(BASE_PRICE)
            d == IF GRID_INTERVAL_PERCENT > 0
                 THEN (base * GRID_INTERVAL_PERCENT) \div 100
                 ELSE PRICE_CHANGE
        IN /\ ev.ret = "ok" <=> d > 0
           /\ ev.ret = "false" <=> d <= 0
           /\ ev.ret = "ok" =>
                 \A i \in 1..Len(grid_orders) :
                    /\ grid_orders[i].sell_price_target - grid_orders[i].buy_price_target = d
                    /\ grid_orders[i].buy_price_target - grid_orders[i].buy_price_min = d

\* Both intervals configured: the grid is spaced by the percentage of the base
\* price, which differs from the fixed amount.
C16_Witness ==
    /\ ev.op = "create"
    /\ ev.ret = "ok"
    /\ GRID_INTERVAL_PERCENT > 0
    /\ PRICE_CHANGE > 0
    /\ grid_orders[1].sell_price_target - grid_orders[1].buy_price_target
          = (Val(BASE_PRICE) * GRID_INTERVAL_PERCENT) \div 100
    /\ grid_orders[1].sell_price_target - grid_orders[1].buy_price_target # PRICE_CHANGE

\* C17 as stated: a configured base price is what the grid is built from, an
\* unset one is taken from the live price read, and a failed price read makes
\* construction fail only when the base price is unset: with a configured
\* base price and a positive interval construction succeeds.
C17_ReadNeededOnlyWhenUnset ==
    ev.op = "create" =>
        /\ (ev.ret = "ok" /\ IsNone(ev.base_in)) =>
               grid_orders[1].buy_price_target = Val(ev.reply)
        /\ ~IsNone(ev.base_in) =>
               LET d == IF GRID_INTERVAL_PERCENT > 0
                        THEN (Val(ev.base_in) * GRID_INTERVAL_PERCENT) \div 100
                        ELSE PRICE_CHANGE
               IN d > 0 => /\ ev.ret = "ok"
                           /\ grid_orders[1].buy_price_target = Val(ev.base_in)

\* C17: construction reads the live price first and fails when that read
\* fails, whether or not a base price is configured; when it succeeds the
\* grid is built from the configured base price if there is one and from the
\* price read otherwise.
C17_BaseResolution ==
    ev.op = "create" =>
        /\ IsNone(ev.reply) => /\ ev.ret = "false"
                               /\ BASE_PRICE = ev.base_in
                               /\ grid_orders = <<>>
        /\ ev.ret = "ok" =>
              LET base == IF IsNone(ev.base_in) THEN Val(ev.reply) ELSE Val(ev.base_in)
              IN /\ BASE_PRICE = Some(base)
                 /\ grid_orders[1].buy_price_target = base

\* A configured base price with a positive fixed interval, and construction
\* failed because the price read failed.
C17_Witness ==
    /\ ev.op = "create"
    /\ ~IsNone(ev.base_in)
    /\ GRID_INTERVAL_PERCENT = 0
    /\ PRICE_CHANGE > 0
    /\ IsNone(ev.reply)
    /\ ev.ret = "false"

C19_NoOrderAbandoned ==
    (pc = "Stopped" /\ ev.op \in {"buy", "sell"} /\ ev.resp = "uuid") =>
        \/ ev.ret = "false"
        \/ /\ ev.ret = "ok"
           /\ grid_orders[ev.level].is_bought = (ev.op = "buy")
           /\ Len(trades) = ev.ntrades + 1

\* C20: the grid table never holds two rows for the same ticker and level, and
\* once a grid is built every level has its one row, carrying the level's
\* current bought flag, also when the grid is built again on a restart.
C20_OneRowPerLevel ==
    /\ \A j \in 1..Len(db_grid) : \A k \in 1..Len(db_grid) :
          (db_grid[j].ticker = db_grid[k].ticker
             /\ db_grid[j].grid_level = db_grid[k].grid_level) => j = k
    /\ \A i \in 1..Len(grid_orders) :
          \E k \in 1..Len(db_grid) :
             /\ db_grid[k].ticker = TICKER
             /\ db_grid[k].grid_level = i
             /\ db_grid[k].is_bought = grid_orders[i].is_bought

\* A restarted bot built its grid again over the rows of a run that had
\* traded, and then bought a level.
C20_Witness ==
    /\ cycle.started
    /\ cycle.pre # <<>>
    /\ ev.op = "buy"
    /\ ev.ret = "ok"
    /\ ev.ntrades >= 1
    /\ trades[1].type = "buy"
    /\ \A i \in 1..Len(ev.pre) : ~ev.pre[i].is_bought
    /\ Len(db_grid) = MAX_GRID_COUNT

C22_SinkIndependent ==
    (ev.op \in {"buy", "sell"} /\ ev.level \in 1..Len(ev.pre)) =>
        LET g == ev.pre[ev.level]
            n == ev.ntrades
            out == IF ev.op = "buy"
                   THEN IF AlreadyBought(g) THEN [ret |-> "false"]
                        ELSE BuyOutcome(g, ev.funds, ev.resp, ev.detail)
                   ELSE IF NotBought(g) THEN [ret |-> "false"]
                        ELSE SellOutcome(g, ev.funds, ev.resp, ev.detail)
            new == IF ev.op = "buy" THEN BoughtGrid(g, ev.detail) ELSE SoldGrid(g)
            row == IF ev.op = "buy"
                   THEN TradeRow(BuyTrade(ev.level, new, ev.detail))
                   ELSE TradeRow(SellTrade(ev.level, g, ev.detail))
        IN /\ ev.ret = out.ret
           /\ IF out.ret = "ok"
              THEN /\ ev.notified \in {"sent", "swallowed"}
                   /\ grid_orders = [ev.pre EXCEPT ![ev.level] = new]
                   /\ Len(trades) = n + 1
                   /\ trades[n + 1] = row
              ELSE /\ ev.notified = "none"
                   /\ grid_orders = ev.pre
                   /\ Len(trades) = n

\* A buy went through while the webhook was down.
C22_Witness ==
    /\ ev.op = "buy"
    /\ ev.ret = "ok"
    /\ ev.notified = "swallowed"
    /\ grid_orders[ev.level].is_bought
    /\ Len(trades) = ev.ntrades + 1

\* C23: two processes for different tickers are isolated under every
\* interleaving: a step of the process of PEER leaves this process's grid
\* levels and prices and the grid, trade and balance rows of TICKER as they
\* were, and a step of this process leaves PEER's grid levels and price and the
\* grid, trade and balance rows of PEER's database as they were.
C23_Isolation ==
    [][LET Own(r) == r.ticker = TICKER
           Other(r) == r.ticker = PEER
           peer_step == peer_mem' # peer_mem
           own_step == <<pc, idx, ev, cycle, grid_orders, current_price,
                         previous_price, BASE_PRICE>>' #
                       <<pc, idx, ev, cycle, grid_orders, current_price,
                         previous_price, BASE_PRICE>>
       IN /\ peer_step =>
                /\ UNCHANGED <<grid_orders, current_price, previous_price>>
                /\ SelectSeq(db_grid', Own) = SelectSeq(db_grid, Own)
                /\ SelectSeq(trades', Own) = SelectSeq(trades, Own)
                /\ balance_rows' = balance_rows
          /\ own_step =>
                /\ peer_mem' = peer_mem
                /\ SelectSeq(PeerFile'.grid, Other) = SelectSeq(PeerFile.grid, Other)
                /\ SelectSeq(PeerFile'.trades, Other) = SelectSeq(PeerFile.trades, Other)
                /\ PeerFile'.balance_history = PeerFile.balance_history
      ]_vars

\* Both processes hold a bought level, each with its rows in its own file.
C23_Witness ==
    /\ Len(grid_orders) > 0
    /\ grid_orders[1].is_bought
    /\ peer_mem.grid_orders # <<>>
    /\ peer_mem.grid_orders[1].is_bought
    /\ \E i \in 1..Len(db_grid) : db_grid[i].ticker = TICKER /\ db_grid[i].is_bought
    /\ \E i \in 1..Len(PeerFile.grid) :
          PeerFile.grid[i].ticker = PEER /\ PeerFile.grid[i].is_bought
    /\ Len(trades) > 0
    /\ Len(PeerFile.trades) > 0

\* C24: every level evaluated in a cycle is compared against the price read at
\* the start of that cycle: while the cycle's levels are evaluated and after,
\* current_price is that reply, and each level's comparison saw that value,
\* also when a buy or sell and its balance snapshot ran at an earlier level.
C24_OnePricePerCycle ==
    (cycle.started /\ cycle.price_read /\ ~IsNone(cycle.reply)) =>
        /\ pc \in {"Eval", "Post"} => current_price = Val(cycle.reply)
        /\ \A i \in Levels :
              ~IsNone(cycle.seen[i]) => Val(cycle.seen[i]) = Val(cycle.reply)

\* Level 1 was sold in this cycle and level 2 was evaluated after it.
C24_Witness ==
    /\ pc = "Post"
    /\ cycle.trig[1] = "sell"
    /\ cycle.acted[1] = 1
    /\ balance_rows = "some"
    /\ ~IsNone(cycle.seen[2])
    /\ cycle.seen[2] = cycle.seen[1]

\* C25: in every reachable state each level that is bought holds a fill
\* volume above zero, and each level that is not bought holds fill volume zero
\* and fill price zero.
C25_FillFields ==
    \A i \in 1..Len(grid_orders) :
        LET grid == grid_orders[i]
        IN /\ grid.is_bought => grid.actual_bought_volume > 0
           /\ ~grid.is_bought =>
                 /\ grid.actual_bought_volume = 0
                 /\ grid.actual_buy_fill_price = 0

\* A level that held a fill was sold and is back at zero.
C25_Witness ==
    /\ ev.op = "sell"
    /\ ev.ret = "ok"
    /\ ev.pre[ev.level].is_bought
    /\ ev.pre[ev.level].actual_bought_volume > 0
    /\ ev.pre[ev.level].actual_buy_fill_price > 0
    /\ ~grid_orders[ev.level].is_bought

\* C26: a buy or sell on level i changes nothing but level i's is_bought, fill
\* volume and fill price: after the call every other level is the dict it was
\* before, level i keeps its number, buy target, buy floor, sell target and
\* order amount, and through the whole session every level holds the targets
\* it was constructed with, so buy targets strictly decrease with the level.
C26_Frame ==
    LET Fixed(g) == <<g.level, g.buy_price_target, g.buy_price_min,
                      g.sell_price_target, g.order_krw_amount>>
        d == price_change_amount(Val(BASE_PRICE), GRID_INTERVAL_PERCENT, PRICE_CHANGE)
    IN /\ (ev.op \in {"buy", "sell"}) =>
             /\ Len(grid_orders) = Len(ev.pre)
             /\ \A i \in 1..Len(grid_orders) :
                   /\ i # GridIndex(ev.level) => grid_orders[i] = ev.pre[i]
                   /\ Fixed(grid_orders[i]) = Fixed(ev.pre[i])
       /\ \A i \in 1..Len(grid_orders) :
             Fixed(grid_orders[i]) =
                Fixed(NewGrid(Val(BASE_PRICE), d, i - 1, ORDER_AMOUNT))
       /\ \A i, j \in 1..Len(grid_orders) :
             i < j => grid_orders[i].buy_price_target > grid_orders[j].buy_price_target

\* Level 2 was bought away from its target while level 1 is held.
C26_Witness ==
    /\ ev.op = "buy"
    /\ ev.ret = "ok"
    /\ ev.level = 2
    /\ grid_orders[2].is_bought
    /\ grid_orders[2].actual_buy_fill_price # grid_orders[2].buy_price_target
    /\ grid_orders[1].is_bought

\* C27: a buy that was skipped or failed is not retried within its cycle and
\* is attempted again in a later cycle exactly when the loop reaches the level
\* with the buy condition true: every buy attempt is made at the loop position
\* of its level with the condition true there, every such position makes an
\* attempt, and the loop then moves to the next position; and after a failed
\* buy of a level, either the level is eventually bought or from some point on
\* no cycle offers the level a fillable buy any more.
C27_RetryNextCycle ==
    /\ [][/\ (ev' # ev /\ ev'.op \in {"buy", "gate"}) =>
                /\ pc = "Eval"
                /\ idx = GridIndex(ev'.level)
                /\ BuyCondition(grid_orders[idx], current_price)
          /\ (AtLevel /\ BuyCondition(grid_orders[idx], current_price)) =>
                /\ ev' # ev
                /\ ev'.op \in {"buy", "gate"}
                /\ GridIndex(ev'.level) = idx
          /\ AtLevel => idx' = idx + 1
         ]_vars
    /\ \A l \in Levels :
          []((/\ cycle.trig[l] = "buy"
              /\ cycle.acted[l] = 0
              /\ ~grid_orders[l].is_bought)
             => <>(\/ (l \in 1..Len(grid_orders) /\ grid_orders[l].is_bought)
                   \/ [] ~(/\ AtLevel
                           /\ idx = l
                           /\ BuyCondition(grid_orders[l], current_price)
                           /\ fills < MaxTrades)))

\* A cycle ended with level 1's buy failed; the price is still in the level's
\* band, so the next cycle at this price attempts it again.
C27_Witness ==
    /\ pc = "Loop"
    /\ cycle.trig[1] = "buy"
    /\ cycle.acted[1] = 0
    /\ ~grid_orders[1].is_bought
    /\ BuyCondition(grid_orders[1], current_price)
    /\ fills < MaxTrades

C30_SwallowedWrites ==
    [][LET Synced(grids, db) ==
               \A l \in 1..Len(grids) :
                  /\ MatchingRows(db, grids[l].level) # {}
                  /\ LET id == CHOOSE i \in MatchingRows(db, grids[l].level) :
                                  \A j \in MatchingRows(db, grids[l].level) : j <= i
                     IN /\ db[id].is_bought = grids[l].is_bought
                        /\ db[id].actual_bought_volume = grids[l].actual_bought_volume
                        /\ db[id].actual_buy_fill_price = grids[l].actual_buy_fill_price
                        /\ db[id].buy_price_target = grids[l].buy_price_target
                        /\ db[id].sell_price_target = grids[l].sell_price_target
                        /\ db[id].order_krw_amount = grids[l].order_krw_amount
           Applied ==
               (ev.op \in {"buy", "sell"} /\ ev.level \in 1..Len(ev.pre)) =>
                   LET g == ev.pre[ev.level]
                       out == IF ev.op = "buy"
                              THEN IF AlreadyBought(g) THEN [ret |-> "false"]
                                   ELSE BuyOutcome(g, ev.funds, ev.resp, ev.detail)
                              ELSE IF NotBought(g) THEN [ret |-> "false"]
                                   ELSE SellOutcome(g, ev.funds, ev.resp, ev.detail)
                       new == IF ev.op = "buy" THEN BoughtGrid(g, ev.detail) ELSE SoldGrid(g)
                   IN /\ ev.ret = out.ret
                      /\ IF out.ret = "ok"
                         THEN /\ grid_orders = [ev.pre EXCEPT ![ev.level] = new]
                              /\ Len(trades) \in {ev.ntrades, ev.ntrades + 1}
                         ELSE /\ grid_orders = ev.pre
                              /\ Len(trades) = ev.ntrades
       IN /\ Applied'
          /\ (store_ok /\ Synced(grid_orders, db_grid)) =>
                Synced(grid_orders', db_grid')
      ]_vars

\* A buy returned success while both writes failed: the level is bought in
\* memory, its row says not bought and no Trade was added.
C30_Witness ==
    /\ ev.op = "buy"
    /\ ev.ret = "ok"
    /\ grid_orders[ev.level].is_bought
    /\ Len(trades) = ev.ntrades
    /\ \E i \in MatchingRows(db_grid, ev.level) : TRUE
    /\ \A i \in MatchingRows(db_grid, ev.level) : ~db_grid[i].is_bought

\* C31: in test (SQLite) mode a grid upsert for a key that already has a row
\* leaves exactly one row for that key, holding the newly supplied values, the
\* same row as production (PostgreSQL) mode holds after the same statement.
C31_UpsertSameAsProduction ==
    (~IsNone(databases.sql) /\ databases.existed) =>
        LET sql == Val(databases.sql)
            test == databases.grid["TEST"]
            production == databases.grid["PRODUCTION"]
        IN /\ Cardinality(Conflicts(test, sql)) = 1
           /\ \A i \in Conflicts(test, sql) :
                 /\ test[i] = sql.row
                 /\ \E j \in Conflicts(production, sql) : production[j] = test[i]

====
